---------------------------- MODULE Spec2Model ----------------------------
(***************************************************************************)
(* Eco Store dynamic pricing demo (src/dynamic.pricing.demo.py).           *)
(*                                                                         *)
(* Time.  An aware datetime is modelled by the instant it denotes, in      *)
(* whole seconds since 2025-03-28 00:00:00 UTC.  The horizon holds the two *)
(* Europe/Athens transitions of 2025: EET -> EEST on 2025-03-30 01:00 UTC  *)
(* and EEST -> EET on 2025-10-26 01:00 UTC.  A naive (wall-clock) datetime *)
(* is modelled by the seconds since 2025-03-28 00:00:00 on the wall clock. *)
(*                                                                         *)
(* Money.  Prices are whole cents.  calculate_price returns a fraction     *)
(* num/den of cents, exact: the rounding of IEEE doubles is not modelled.  *)
(***************************************************************************)
EXTENDS Integers, Sequences, FiniteSets, TLC

VARIABLES
    \* ---- the running application ----
    now,            \* the wall clock (an instant)
    products,       \* st.cache_resource entry of get_products: <<>> or the catalog
    sched_cache,    \* st.cache_data entry of get_global_scheduled_time
    cart,           \* per viewer: st.session_state.cart, the items references into products
    last_run,       \* the last script run: its viewer and the page it drew
    returned,       \* per viewer: its last call of get_global_scheduled_time (CacheSpec)
    \* ---- the functions, called on their own ----
    current_dt,     \* the timestamp passed in
    product,        \* the product passed in
    called,         \* which of the results below have been computed
    cycle,          \* get_cycle(current_dt)
    scheduled_time, \* get_current_scheduled_time(current_dt)
    price,          \* calculate_price(product, current_dt)
    scheduled_cycle,\* get_cycle(scheduled_time)
    scheduled_price \* calculate_price(product, scheduled_time)

appVars == <<now, products, sched_cache, cart, last_run, returned>>
fnVars == <<current_dt, product, called, cycle, scheduled_time, price,
            scheduled_cycle, scheduled_price>>
vars == <<now, products, sched_cache, cart, last_run, returned, current_dt, product, called,
          cycle, scheduled_time, price, scheduled_cycle, scheduled_price>>

----------------------------------------------------------------------------
(* Units *)

Hour == 60 * 60
Day == 24 * Hour
Euro(x) == x * 100

(* Program constants *)

UPDATE_INTERVAL == 5
CycleStartHour == 5
CycleHours == 22

(* Bounds of the model *)

MaxHours == 30      \* hours covered by each sampled window of timestamps
MaxOffset == 5      \* seconds before and after the whole hour that are sampled
NumViewers == 2     \* browser sessions
MaxCart == 2        \* items in all carts together
MaxClock == 5       \* seconds the application's clock runs

----------------------------------------------------------------------------
(* pytz.timezone("Europe/Athens") *)

StdOffset == 2 * Hour
DstOffset == 3 * Hour
DstStart == 2 * Day + Hour
DstEnd == 212 * Day + Hour

\* tz.utcoffset of the instant u
utcoffset(u) ==
    IF DstStart <= u /\ u < DstEnd THEN DstOffset ELSE StdOffset

\* dt.astimezone(tz): the wall-clock reading (naive seconds) of the instant u
astimezone(u) == u + utcoffset(u)

\* tz.localize(naive), is_dst=False: the instant whose wall clock reads naive;
\* an ambiguous or a skipped reading takes the standard offset.
localize(naive) ==
    IF utcoffset(naive - StdOffset) = StdOffset THEN naive - StdOffset
    ELSE IF utcoffset(naive - DstOffset) = DstOffset THEN naive - DstOffset
    ELSE naive - StdOffset

\* dt.date() and dt.time() of a wall-clock reading
DateOf(local) == local \div Day
TimeOf(local) == local % Day

----------------------------------------------------------------------------
(* The three functions *)

get_cycle_previous_day_always(dt) ==
    LET local == astimezone(dt)
        cycle_start == localize((DateOf(local) - 1) * Day + CycleStartHour * Hour)
    IN  [cycle_start |-> cycle_start, cycle_end |-> cycle_start + CycleHours * Hour]

get_cycle_naive_offset(dt) ==
    LET local == astimezone(dt)
        today == DateOf(local)
        startDay == IF TimeOf(local) >= CycleStartHour * Hour THEN today ELSE today - 1
        cycle_start == startDay * Day + CycleStartHour * Hour - utcoffset(dt)
    IN  [cycle_start |-> cycle_start, cycle_end |-> cycle_start + CycleHours * Hour]

get_cycle(dt) ==
    LET local == astimezone(dt)
        today == DateOf(local)
        cycle_start ==
            IF TimeOf(local) >= CycleStartHour * Hour
            THEN localize(today * Day + CycleStartHour * Hour)
            ELSE localize((today - 1) * Day + CycleStartHour * Hour)
    IN  [cycle_start |-> cycle_start, cycle_end |-> cycle_start + CycleHours * Hour]

get_current_scheduled_time_nearest(dt) ==
    LET cycle_start == get_cycle(dt).cycle_start
        delta == dt - cycle_start
        near_delta == ((delta + UPDATE_INTERVAL \div 2) \div UPDATE_INTERVAL) * UPDATE_INTERVAL
    IN  cycle_start + near_delta

get_current_scheduled_time_ceil(dt) ==
    LET cycle_start == get_cycle(dt).cycle_start
        delta == dt - cycle_start
        ceil_delta == ((delta + UPDATE_INTERVAL - 1) \div UPDATE_INTERVAL) * UPDATE_INTERVAL
    IN  cycle_start + ceil_delta

get_current_scheduled_time(dt) ==
    LET cycle_start == get_cycle(dt).cycle_start
        delta == dt - cycle_start
        floor_delta == (delta \div UPDATE_INTERVAL) * UPDATE_INTERVAL
    IN  cycle_start + floor_delta

calculate_price_from_midnight(p, dt) ==
    LET c == get_cycle(dt)
        total_duration == c.cycle_end - c.cycle_start
        elapsed == TimeOf(astimezone(dt))
    IN  [num |-> p.start_price * total_duration
                 + (p.end_price - p.start_price) * elapsed,
         den |-> total_duration]

calculate_price_day_duration(p, dt) ==
    LET c == get_cycle(dt)
        total_duration == Day
        elapsed == dt - c.cycle_start
    IN  [num |-> p.start_price * total_duration
                 + (p.end_price - p.start_price) * elapsed,
         den |-> total_duration]

calculate_price_from_cycle_end(p, dt) ==
    LET c == get_cycle(dt)
        total_duration == c.cycle_end - c.cycle_start
        elapsed == c.cycle_end - dt
    IN  [num |-> p.start_price * total_duration
                 + (p.end_price - p.start_price) * elapsed,
         den |-> total_duration]

\* price = start_price + (end_price - start_price) * elapsed / total_duration,
\* kept as the fraction num/den
calculate_price(p, dt) ==
    LET c == get_cycle(dt)
        total_duration == c.cycle_end - c.cycle_start
        elapsed == dt - c.cycle_start
    IN  [num |-> p.start_price * total_duration
                 + (p.end_price - p.start_price) * elapsed,
         den |-> total_duration]

----------------------------------------------------------------------------
(* The catalog *)

\* random.uniform(a, b): a + (b - a) * random(), the draw r standing for
\* random() = r/2, so that r = 0 gives a, r = 1 the middle and r = 2 gives b
uniform(a, b, r) == a + ((b - a) * r) \div 2

ProductNames ==
    <<"Eco Backpack", "Reusable Water Bottle", "Organic T-Shirt", "Eco Sunglasses">>
StartPrices == <<Euro(50), Euro(20), Euro(30), Euro(40)>>

NewProduct(i, r) ==
    [name |-> ProductNames[i],
     start_price |-> StartPrices[i],
     end_price |-> uniform((30 * StartPrices[i]) \div 100,
                           (70 * StartPrices[i]) \div 100, r)]

\* the body of get_products, r the four draws
get_products(r) == [i \in 1..4 |-> NewProduct(i, r[i])]

\* the draws of a process that are sampled
RandomDraws == {<<0, 0, 0, 0>>, <<2, 2, 2, 2>>, <<0, 1, 2, 1>>, <<1, 2, 0, 2>>}

----------------------------------------------------------------------------
(* The functions called on their own: FnSpec *)

\* Two windows of timestamps, each from 02:00 UTC: 2025-03-29 (the clocks go
\* forward the next night) and 2025-10-25 (the clocks go back the next night).
Windows == {Day + 2 * Hour, 211 * Day + 2 * Hour}
Times ==
    {w + h * Hour + o : w \in Windows, h \in 0..MaxHours, o \in (0 - MaxOffset)..MaxOffset}

ScenarioProduct == [name |-> "Scenario", start_price |-> Euro(100), end_price |-> Euro(40)]
RisingProduct == [name |-> "Rising", start_price |-> Euro(40), end_price |-> Euro(100)]
CatalogProducts == {get_products(r)[i] : i \in 1..4, r \in RandomDraws}
ProductInputs == CatalogProducts \cup {ScenarioProduct, RisingProduct}

NoCycle == [cycle_start |-> 0, cycle_end |-> 0]
NoPrice == [num |-> 0, den |-> 1]
NoProduct == [name |-> "", start_price |-> 0, end_price |-> 0]

AppStart == Day + 7 * Hour + 3

AppIdle ==
    /\ now = AppStart
    /\ products = <<>>
    /\ sched_cache = [filled |-> FALSE, value |-> 0, at |-> 0]
    /\ cart = [v \in 1..NumViewers |-> <<>>]
    /\ last_run = [viewer |-> 0, page |-> ""]
    /\ returned = [v \in 1..NumViewers |-> [called |-> FALSE, at |-> 0, value |-> 0]]

FnIdle ==
    /\ current_dt = 0
    /\ product = NoProduct
    /\ called = {}
    /\ cycle = NoCycle
    /\ scheduled_time = 0
    /\ price = NoPrice
    /\ scheduled_cycle = NoCycle
    /\ scheduled_price = NoPrice

FnInit ==
    /\ AppIdle
    /\ current_dt \in Times
    /\ product \in ProductInputs
    /\ called = {}
    /\ cycle = NoCycle
    /\ scheduled_time = 0
    /\ price = NoPrice
    /\ scheduled_cycle = NoCycle
    /\ scheduled_price = NoPrice

\* cycle_start, cycle_end = get_cycle(current_dt)
CallGetCycle ==
    /\ "get_cycle" \notin called
    /\ cycle' = get_cycle(current_dt)
    /\ called' = called \cup {"get_cycle"}
    /\ UNCHANGED <<current_dt, product, scheduled_time, price, scheduled_cycle,
                   scheduled_price>>
    /\ UNCHANGED appVars

\* scheduled_time = get_current_scheduled_time(current_dt)
CallGetCurrentScheduledTime ==
    /\ "get_current_scheduled_time" \notin called
    /\ scheduled_time' = get_current_scheduled_time(current_dt)
    /\ called' = called \cup {"get_current_scheduled_time"}
    /\ UNCHANGED <<current_dt, product, cycle, price, scheduled_cycle, scheduled_price>>
    /\ UNCHANGED appVars

\* price = calculate_price(product, current_dt)
CallCalculatePrice ==
    /\ "calculate_price" \notin called
    /\ price' = calculate_price(product, current_dt)
    /\ called' = called \cup {"calculate_price"}
    /\ UNCHANGED <<current_dt, product, cycle, scheduled_time, scheduled_cycle,
                   scheduled_price>>
    /\ UNCHANGED appVars

\* price = calculate_price(product, scheduled_time), as the pages call it, and
\* the cycle it interpolates over
CallPriceAtScheduledTime ==
    /\ "get_current_scheduled_time" \in called
    /\ "price_at_scheduled_time" \notin called
    /\ scheduled_cycle' = get_cycle(scheduled_time)
    /\ scheduled_price' = calculate_price(product, scheduled_time)
    /\ called' = called \cup {"price_at_scheduled_time"}
    /\ UNCHANGED <<current_dt, product, cycle, scheduled_time, price>>
    /\ UNCHANGED appVars

AllCalled ==
    {"get_cycle", "get_current_scheduled_time", "calculate_price", "price_at_scheduled_time"}

\* the same product priced again at a later timestamp
LaterQuery ==
    /\ called = AllCalled
    /\ \E t2 \in Times :
        /\ t2 > current_dt
        /\ current_dt' = t2
        /\ cycle' = get_cycle(t2)
        /\ price' = calculate_price(product, t2)
    /\ called' = {"get_cycle", "calculate_price"}
    /\ scheduled_time' = 0
    /\ scheduled_cycle' = NoCycle
    /\ scheduled_price' = NoPrice
    /\ UNCHANGED product
    /\ UNCHANGED appVars

FnNext ==
    \/ CallGetCycle
    \/ CallGetCurrentScheduledTime
    \/ CallCalculatePrice
    \/ CallPriceAtScheduledTime
    \/ LaterQuery

FnSpec == FnInit /\ [][FnNext]_vars

----------------------------------------------------------------------------
(* The running application: Spec *)

Viewers == 1..NumViewers

\* products = get_products() under st.cache_resource: the body runs on the first
\* call of the process, and every later call returns the object it built
cached_get_products(entry, r) == IF entry = <<>> THEN get_products(r) ELSE entry

\* get_global_scheduled_time() under st.cache_data(ttl=UPDATE_INTERVAL) at the
\* instant t: the entry filled at c.at is served while t < c.at + ttl, and the
\* body runs again (now = t) once it has expired
get_global_scheduled_time(c, t) ==
    IF c.filled /\ t - c.at < UPDATE_INTERVAL
    THEN [cache |-> c, value |-> c.value]
    ELSE LET q == get_current_scheduled_time(t)
         IN  [cache |-> [filled |-> TRUE, value |-> q, at |-> t], value |-> q]

WithCurrentPrice(item, p) ==
    [f \in DOMAIN item \cup {"current_price"} |->
        IF f = "current_price" THEN p ELSE item[f]]

UpdatedItem_without_copy(heap, ref, p) ==
    [heap EXCEPT ![ref] = WithCurrentPrice(heap[ref], p)]

\* updated_item = item.copy(); updated_item["current_price"] = p, item being the
\* catalog's dict heap[ref]: the catalog as the assignment leaves it
UpdatedItem(heap, ref, p) == heap

\* the loop of the Cart page over st.session_state.cart: the catalog after it
RECURSIVE CartPage(_, _, _, _)
CartPage(heap, items, c, t) ==
    IF items = <<>> THEN heap
    ELSE LET ref == Head(items)
             p == calculate_price(heap[ref], get_global_scheduled_time(c, t).value)
         IN  CartPage(UpdatedItem(heap, ref, p), Tail(items), c, t)

RECURSIVE CartItems(_, _)
CartItems(carts, v) == IF v = 0 THEN 0 ELSE Len(carts[v]) + CartItems(carts, v - 1)

\* the draws random.uniform makes when the body of get_products runs
Draws == IF products = <<>> THEN RandomDraws ELSE {<<0, 0, 0, 0>>}

Init ==
    /\ AppIdle
    /\ FnIdle

\* the wall clock advances by a second
Tick ==
    /\ now < AppStart + MaxClock
    /\ now' = now + 1
    /\ UNCHANGED <<products, sched_cache, cart, last_run, returned>>
    /\ UNCHANGED fnVars

\* a script run of the viewer v with the Demo page selected; pressed is the
\* product whose Buy Now button st.button reports as clicked in this run (0: none)
RunDemo(v, pressed) ==
    /\ pressed # 0 => CartItems(cart, NumViewers) < MaxCart
    /\ \E r \in Draws : products' = cached_get_products(products, r)
    /\ sched_cache' = get_global_scheduled_time(sched_cache, now).cache
    /\ cart' = IF pressed = 0 THEN cart ELSE [cart EXCEPT ![v] = Append(@, pressed)]
    /\ last_run' = [viewer |-> v, page |-> "Demo"]
    /\ UNCHANGED <<now, returned>>
    /\ UNCHANGED fnVars

\* a script run of the viewer v with the Console page selected
RunConsole(v) ==
    /\ \E r \in Draws : products' = cached_get_products(products, r)
    /\ sched_cache' = get_global_scheduled_time(sched_cache, now).cache
    /\ last_run' = [viewer |-> v, page |-> "Console"]
    /\ UNCHANGED <<now, cart, returned>>
    /\ UNCHANGED fnVars

\* a script run of the viewer v with the Cart page selected
RunCart(v) ==
    /\ sched_cache' = get_global_scheduled_time(sched_cache, now).cache
    /\ \E r \in Draws :
          products' = CartPage(cached_get_products(products, r), cart[v],
                               sched_cache', now)
    /\ last_run' = [viewer |-> v, page |-> "Cart"]
    /\ UNCHANGED <<now, cart, returned>>
    /\ UNCHANGED fnVars

Next ==
    \/ Tick
    \/ \E v \in Viewers : \E pressed \in 0..4 : RunDemo(v, pressed)
    \/ \E v \in Viewers : RunConsole(v)
    \/ \E v \in Viewers : RunCart(v)

Spec == Init /\ [][Next]_vars

----------------------------------------------------------------------------
(* get_global_scheduled_time called as the clock runs: CacheSpec *)

\* the viewer v's script calls get_global_scheduled_time()
CallGetGlobalScheduledTime(v) ==
    /\ sched_cache' = get_global_scheduled_time(sched_cache, now).cache
    /\ returned' = [returned EXCEPT ![v] =
                       [called |-> TRUE, at |-> now,
                        value |-> get_global_scheduled_time(sched_cache, now).value]]
    /\ UNCHANGED <<now, products, cart, last_run>>
    /\ UNCHANGED fnVars

CacheNext ==
    \/ Tick
    \/ \E v \in Viewers : CallGetGlobalScheduledTime(v)

CacheSpec == Init /\ [][CacheNext]_vars

----------------------------------------------------------------------------
(* Properties of the functions (checked under FnSpec) *)

Has(f) == f \in called
InCycle(c, u) == c.cycle_start <= u /\ u <= c.cycle_end
IsCycleStartTime(u) == TimeOf(astimezone(u)) = CycleStartHour * Hour
MinPrice(p) == IF p.start_price <= p.end_price THEN p.start_price ELSE p.end_price
MaxPrice(p) == IF p.start_price <= p.end_price THEN p.end_price ELSE p.start_price
InCatalogRange(p) ==
    /\ p.start_price >= 0
    /\ 100 * p.end_price >= 30 * p.start_price
    /\ 100 * p.end_price <= 70 * p.start_price

\* C1: for every timestamp strictly after the end of its cycle, calculate_price
\* returns end_price exactly (the fraction is clamped to 1).
C1_ClampedAfterCycleEnd ==
    (Has("get_cycle") /\ Has("calculate_price") /\ current_dt > cycle.cycle_end)
        => price.num = product.end_price * price.den

C3_MonotoneStep ==
    (/\ Has("get_cycle") /\ Has("calculate_price")
     /\ product' = product
     /\ cycle' = cycle
     /\ current_dt <= current_dt'
     /\ InCycle(cycle, current_dt)
     /\ InCycle(cycle', current_dt'))
        => /\ price'.den = price.den
           /\ (product.start_price >= product.end_price => price.num >= price'.num)
           /\ (product.start_price <= product.end_price => price.num <= price'.num)

\* C3: within one cycle the price is monotone in time: pricing the same product
\* again at a later timestamp of the same cycle, both inside
\* [cycle_start, cycle_end], never raises the price of a product whose
\* start_price >= end_price and never lowers it when start_price <= end_price.
C3_Monotone == [][C3_MonotoneStep]_vars

C3_Witness ==
    /\ called = {"get_cycle", "calculate_price"}
    /\ product = RisingProduct
    /\ current_dt = cycle.cycle_start + 2 * Hour + 1
    /\ price.num > product.start_price * price.den

C6_MostRecentStart ==
    LET local == astimezone(current_dt)
        startLocal == astimezone(cycle.cycle_start)
    IN  /\ IsCycleStartTime(cycle.cycle_start)
        /\ DateOf(startLocal) =
              IF TimeOf(local) >= CycleStartHour * Hour
              THEN DateOf(local) ELSE DateOf(local) - 1
        /\ cycle.cycle_start <= current_dt
        /\ \A k \in 1..((current_dt - cycle.cycle_start) \div Hour) :
              ~IsCycleStartTime(cycle.cycle_start + k * Hour)
        /\ cycle.cycle_end = cycle.cycle_start + CycleHours * Hour
        /\ cycle.cycle_end > cycle.cycle_start

\* C6 as stated: cycle_start is the most recent 05:00 Europe/Athens that is <= t,
\* cycle_end = cycle_start + 22 hours > cycle_start, and consequently
\* cycle_start <= t < cycle_start + 24 hours.
C6_Original ==
    Has("get_cycle")
        => /\ C6_MostRecentStart
           /\ current_dt < cycle.cycle_start + 24 * Hour

\* C6 (amended): cycle_start is the most recent 05:00 Europe/Athens that is <= t,
\* cycle_end = cycle_start + 22 hours > cycle_start, and
\* cycle_start <= t < cycle_start + 25 hours.
C6_Amended ==
    Has("get_cycle")
        => /\ C6_MostRecentStart
           /\ current_dt < cycle.cycle_start + 25 * Hour

\* the clocks went back since cycle_start: the day is 25 hours long
C6_Witness ==
    /\ Has("get_cycle")
    /\ current_dt >= cycle.cycle_start + 24 * Hour
    /\ TimeOf(astimezone(current_dt)) < CycleStartHour * Hour

C8_NeverNegative ==
    (Has("calculate_price") /\ InCatalogRange(product))
        => price.den > 0 /\ price.num >= 0

\* the price has run below end_price, after the end of the cycle
C8_Witness ==
    /\ Has("get_cycle") /\ Has("calculate_price")
    /\ InCatalogRange(product)
    /\ current_dt >= cycle.cycle_end + 2 * Hour
    /\ price.num < product.end_price * price.den
    /\ price.num >= 0

----------------------------------------------------------------------------
(* Properties of the cache and of the catalog *)

\* C5: any two calls of get_global_scheduled_time made within the same tick
\* [cycle_start + k*UPDATE_INTERVAL, cycle_start + (k+1)*UPDATE_INTERVAL) return
\* the same value, whichever viewers make them.
C5_SameTickSameValue ==
    \A v \in Viewers : \A w \in Viewers :
        (/\ returned[v].called
         /\ returned[w].called
         /\ get_current_scheduled_time(returned[v].at)
              = get_current_scheduled_time(returned[w].at))
            => returned[v].value = returned[w].value

CatalogAsCreated(heap) ==
    /\ DOMAIN heap = 1..4
    /\ \A i \in 1..4 :
        /\ DOMAIN heap[i] = {"name", "start_price", "end_price"}
        /\ heap[i].name = ProductNames[i]
        /\ heap[i].start_price = StartPrices[i]
        /\ 100 * heap[i].end_price >= 30 * heap[i].start_price
        /\ 100 * heap[i].end_price <= 70 * heap[i].start_price

\* a step leaves a catalog as get_products built it
C9_Step ==
    /\ products' # <<>> => CatalogAsCreated(products')
    /\ products # <<>> => products' = products

\* C9: the catalog is created once, every end_price within 30% and 70% of its
\* start_price, and no script run (a page drawn, a Buy Now click, a Cart page
\* view) changes the name, the prices or the set of fields of any product in it.
C9_CatalogReadOnly == [][C9_Step]_vars

\* a Cart page has been drawn for a viewer whose cart holds two products
C9_Witness ==
    /\ products # <<>>
    /\ last_run.page = "Cart"
    /\ last_run.viewer \in Viewers
    /\ Len(cart[last_run.viewer]) >= 2

============================================================================
